---- MODULE Spec2Model ----
(***************************************************************************)
(* TubeQuiz: the Streamlit session of src/app.py (quiz generation, answer  *)
(* recording, submission and scoring, reset) together with generate_quiz   *)
(* of src/model.py and get_transcript of src/transcript.py.                *)
(*                                                                         *)
(* One action is one run of the script (Streamlit reruns the whole script  *)
(* on every interaction; an on_click callback runs before the script       *)
(* body).  Text produced by the language model is a sequence of tokens:    *)
(*   "F"  the opening fence ```json        "E"  a closing fence ```        *)
(*   "{"  "}"  braces                      "w"  prose without braces       *)
(*   "n"  a JSON number literal            "l"  a JSON array literal       *)
(*   "q"  the members of a quiz object     "f"  the members of a feedback  *)
(*                                              object                      *)
(* Whitespace is not a token: both regular expressions and json.loads skip *)
(* it.  The members "q" and "f" stand only between an outer pair of braces *)
(* in the sample texts; what they hold is carried beside the text.         *)
(* Python floats are modelled as exact fractions [num, den].               *)
(*                                                                         *)
(* Spec is the session from its first run.  SpecPrompt is the session with *)
(* the quiz of the prompt's size installed.  SpecExtract applies the       *)
(* extraction of generate_quiz and of the handler to model texts.          *)
(* SpecTranscribe is one call of transcribe_audio of src/transcript.py     *)
(* beside the job of the transcription service.                            *)
(***************************************************************************)
EXTENDS Integers, Sequences, FiniteSets, TLC

\* ---------------------------------------------------------------- bounds
\* The most MCQ items and text items of a quiz the model may return, beside
\* the quiz of the size the prompt asks for.
MaxMcq == 1
MaxText == 1

\* The sizes the prompt of generate_quiz asks for.
PromptMcqs == 5
PromptTexts == 3

\* ------------------------------------------------------------ JSON texts
Range(s) == {s[i] : i \in DOMAIN s}

\* re.search(r'```json\s*(.*?)\s*```', text, re.DOTALL): the first opening
\* fence and, lazily, the next fence after it (an opening fence begins with
\* the three backticks of a closing one).
FenceMatch(t) ==
    LET opens == {i \in DOMAIN t : t[i] = "F"}
    IN  IF opens = {} THEN [found |-> FALSE, group |-> <<>>]
        ELSE LET i == CHOOSE x \in opens : \A y \in opens : x <= y
                 closes == {j \in DOMAIN t : j > i /\ t[j] \in {"E", "F"}}
             IN  IF closes = {} THEN [found |-> FALSE, group |-> <<>>]
                 ELSE LET j == CHOOSE x \in closes : \A y \in closes : x <= y
                      IN  [found |-> TRUE, group |-> SubSeq(t, i + 1, j - 1)]

\* re.search(r'(\{.*\})', text, re.DOTALL): the first "{" through the last "}".
BraceMatch(t) ==
    LET opens == {i \in DOMAIN t : t[i] = "{"}
    IN  IF opens = {} THEN [found |-> FALSE, group |-> <<>>]
        ELSE LET i == CHOOSE x \in opens : \A y \in opens : x <= y
                 closes == {j \in DOMAIN t : j > i /\ t[j] = "}"}
             IN  IF closes = {} THEN [found |-> FALSE, group |-> <<>>]
                 ELSE LET j == CHOOSE x \in closes : \A y \in closes : x >= y
                      IN  [found |-> TRUE, group |-> SubSeq(t, i, j)]

\* json.loads: ok is FALSE where it raises.  members is "q", "f" or "" (an
\* object with no member).
json_loads(t) ==
    IF t = <<"n">> THEN [ok |-> TRUE, kind |-> "num", members |-> ""]
    ELSE IF t = <<"l">> THEN [ok |-> TRUE, kind |-> "list", members |-> ""]
    ELSE IF t = <<"{", "}">> THEN [ok |-> TRUE, kind |-> "dict", members |-> ""]
    ELSE IF Len(t) = 3 /\ t[1] = "{" /\ t[3] = "}" /\ t[2] \in {"q", "f"}
         THEN [ok |-> TRUE, kind |-> "dict", members |-> t[2]]
    ELSE [ok |-> FALSE, kind |-> "none", members |-> ""]

\* The braces of the whole text first, and the fence inside them.
ExtractBraceFirst(t) ==
    LET brace == BraceMatch(t)
        a == IF brace.found THEN brace.group ELSE t
        fence == FenceMatch(a)
    IN  IF fence.found THEN fence.group ELSE a

\* The two regular expressions of generate_quiz and of the generate handler,
\* in their order: the fence, then the braces inside what the fence left.
ExtractCandidate(t) ==
    LET fence == FenceMatch(t)
        a == IF fence.found THEN fence.group ELSE t
        brace == BraceMatch(a)
    IN  IF brace.found THEN brace.group ELSE a

\* ------------------------------------------------------------ quiz values
\* A value of st.session_state.quiz: None, or what json.loads returned.  A
\* dict is given by the keys it has; other says it has some other key.
NoneQuiz ==
    [kind |-> "none", has_mcqs |-> FALSE, mcqs |-> <<>>,
     has_text |-> FALSE, text_questions |-> <<>>, other |-> FALSE]

DictQuiz(hm, ms, ht, ts) ==
    [kind |-> "dict", has_mcqs |-> hm, mcqs |-> ms,
     has_text |-> ht, text_questions |-> ts, other |-> FALSE]

\* json.loads of "{...}" holding the members of a feedback object, of "{}",
\* of a number and of an array.
OtherDict == [NoneQuiz EXCEPT !.kind = "dict", !.other = TRUE]
EmptyDict == [NoneQuiz EXCEPT !.kind = "dict"]
NumValue == [NoneQuiz EXCEPT !.kind = "num"]
ListValue == [NoneQuiz EXCEPT !.kind = "list"]

\* Python truthiness of the quiz: None and {} are falsy; the number and the
\* array of the sample texts are a non-zero number and a non-empty array.
Truthy(q) ==
    \/ q.kind \in {"num", "list"}
    \/ q.kind = "dict" /\ (q.has_mcqs \/ q.has_text \/ q.other)

\* MCQ items as the model returns them: the answer "Z" is none of the options.
McqItem(a) == [options |-> <<"A", "B">>, answer |-> a]

\* Text items as the model returns them: with a reference answer, without
\* one, and without its "question" key too.
WithAnswer == [has_question |-> TRUE, has_answer |-> TRUE, answer |-> "ref"]
NoAnswerKey == [has_question |-> TRUE, has_answer |-> FALSE, answer |-> ""]
NoQuestionKey == [has_question |-> FALSE, has_answer |-> FALSE, answer |-> ""]

\* A quiz of m MCQs and t text questions with every key in place.
WellFormed(m, t) ==
    DictQuiz(TRUE, [i \in 1..m |-> McqItem("A")], TRUE, [i \in 1..t |-> WithAnswer])

\* The quiz of the shape the prompt asks for: 5 MCQs, 3 short-answer questions.
PromptQuiz == WellFormed(PromptMcqs, PromptTexts)

\* The objects the model may return as a quiz: the well-formed ones within
\* the bounds, and objects that lack a key, whose answer is none of the
\* options, or whose text questions lack keys (the prompt's own example shows
\* text questions without an answer).
QuizPayloads ==
    {WellFormed(m, t) : m \in 0..MaxMcq, t \in 0..MaxText} \cup
    {DictQuiz(FALSE, <<>>, TRUE, <<WithAnswer>>),
     DictQuiz(TRUE, <<McqItem("A")>>, FALSE, <<>>),
     DictQuiz(FALSE, <<>>, FALSE, <<>>),
     DictQuiz(TRUE, <<McqItem("Z")>>, TRUE, <<>>),
     DictQuiz(TRUE, <<McqItem("A")>>, TRUE, <<NoAnswerKey>>),
     DictQuiz(TRUE, <<>>, TRUE, <<WithAnswer, NoAnswerKey>>),
     DictQuiz(TRUE, <<>>, TRUE, <<NoAnswerKey, NoAnswerKey>>),
     DictQuiz(TRUE, <<>>, TRUE, <<NoQuestionKey>>),
     DictQuiz(TRUE, <<>>, TRUE, <<NoAnswerKey, NoQuestionKey>>)}

\* ------------------------------------------------------------- model.py
\* What bedrock's invoke_model gives generate_quiz: it raises (err), or it
\* returns a text; quiz is what the members "q" of the text hold.
PlainText == <<"{", "q", "}">>
GenTexts ==
    {PlainText,
     <<"w", "F", "{", "q", "}", "E", "w">>,
     <<"w", "{", "q", "}", "w">>,
     <<"{", "w", "}", "F", "{", "q", "}", "E", "w">>,
     <<"F", "w", "E", "{", "q", "}">>,
     <<"F", "F", "{", "q", "}", "E", "E">>,
     <<"{", "q", "}", "w", "{", "q", "}">>,
     <<"{", "w", "}">>,
     <<"{", "f", "}">>,
     <<"{", "}">>,
     <<"w">>,
     <<"n">>,
     <<"l">>,
     <<"F", "n", "E">>,
     <<>>}

\* Every sample text with one well-formed quiz, and the plain text with
\* every quiz.
GenReplies ==
    {[err |-> TRUE, text |-> <<>>, quiz |-> NoneQuiz]} \cup
    {[err |-> FALSE, text |-> t, quiz |-> WellFormed(1, 1)] : t \in GenTexts} \cup
    {[err |-> FALSE, text |-> PlainText, quiz |-> q] : q \in QuizPayloads}

\* The value json.loads returned, as a quiz value.
JsonValue(p, quiz) ==
    IF p.kind = "num" THEN NumValue
    ELSE IF p.kind = "list" THEN ListValue
    ELSE IF p.members = "q" THEN quiz
    ELSE IF p.members = "f" THEN OtherDict
    ELSE EmptyDict

\* generate_reference_answer: the text of the reply, or the fallback literal
\* when the call raises.
NoReference == "No reference answer available."
generate_reference_answer(outcome) ==
    IF outcome = "ok" THEN "generated" ELSE NoReference

\* The loop of generate_quiz over quiz_json['text_questions'] (lines 83-86),
\* from item i on.  bf[i] is the outcome of the reference-answer call for
\* item i.  question['question'] raises KeyError at an item that has neither
\* key.  calls are the reference-answer calls issued, in their order.
RECURSIVE BackfillLoop(_, _, _, _)
BackfillLoop(items, bf, i, st) ==
    IF i > Len(items) \/ st.raised THEN st
    ELSE IF items[i].has_answer THEN BackfillLoop(items, bf, i + 1, st)
    ELSE IF ~items[i].has_question THEN [st EXCEPT !.raised = TRUE]
    ELSE BackfillLoop(items, bf, i + 1,
            [st EXCEPT !.calls = Append(@, [item |-> i, outcome |-> bf[i]]),
                       !.items[i] = [@ EXCEPT !.has_answer = TRUE,
                                        !.answer = generate_reference_answer(bf[i])]])

Backfill(items, bf) ==
    BackfillLoop(items, bf, 1, [raised |-> FALSE, calls |-> <<>>, items |-> items])

\* generate_quiz(transcript): None when the model call raises; the parsed
\* value, its text questions backfilled; or, when anything raised after the
\* call, the candidate text itself.
generate_quiz(reply, bf) ==
    IF reply.err
    THEN [type |-> "none", val |-> NoneQuiz, text |-> <<>>, calls |-> <<>>]
    ELSE LET cand == ExtractCandidate(reply.text)
             p == json_loads(cand)
             v == JsonValue(p, reply.quiz)
             b == Backfill(v.text_questions, bf)
         IN  IF ~p.ok
             THEN [type |-> "str", val |-> NoneQuiz, text |-> cand, calls |-> <<>>]
             ELSE IF p.kind = "num"    \* 'text_questions' in 5: TypeError
             THEN [type |-> "str", val |-> NoneQuiz, text |-> cand, calls |-> <<>>]
             ELSE IF p.kind = "dict" /\ v.has_text
             THEN IF b.raised
                  THEN [type |-> "str", val |-> NoneQuiz, text |-> cand,
                        calls |-> b.calls]
                  ELSE [type |-> "json", val |-> [v EXCEPT !.text_questions = b.items],
                        text |-> <<>>, calls |-> b.calls]
             ELSE [type |-> "json", val |-> v, text |-> <<>>, calls |-> <<>>]

\* ---------------------------------------------------------- transcript.py
\* get_transcript: the direct lookup returns the transcript, or raises; the
\* function catches every exception and returns None, so it never raises.
get_transcript(lookup) ==
    [raised |-> FALSE, value |-> IF lookup = "ok" THEN "str" ELSE "None"]

\* ------------------------------------------------------- session of app.py
VARIABLES
    quiz,             \* st.session_state.quiz
    processing,       \* st.session_state.processing
    error,            \* st.session_state.error ("None" for None)
    mcq_responses,    \* st.session_state.mcq_responses
    text_responses,   \* st.session_state.text_responses
    quiz_submitted,   \* st.session_state.quiz_submitted
    quiz_score,       \* st.session_state.quiz_score
    text_feedback,    \* st.session_state.text_feedback
    view,             \* what the last run of the script left on the page
    run,              \* what the last run did: its calls and its exception
    job,              \* TranscriptionJobStatus at the service ("none": no job)
    call              \* the call of transcribe_audio: its position and locals

vars == <<quiz, processing, error, mcq_responses, text_responses,
          quiz_submitted, quiz_score, text_feedback, view, run, job, call>>

\* The variables of the session, and those of the transcription.
session == <<quiz, processing, error, mcq_responses, text_responses,
             quiz_submitted, quiz_score, text_feedback, view, run>>
transcription == <<job, call>>

\* No call of transcribe_audio is under way.
NoCall == [pc |-> "idle", state |-> "", polls |-> 0, result |-> "", exc |-> ""]

\* str(i) and int(q_id) for the indices of a quiz.
Digits == <<"0", "1", "2", "3", "4", "5", "6", "7", "8", "9">>
str(i) == Digits[i + 1]
int(k) == CHOOSE i \in 0..(Len(Digits) - 1) : str(i) = k

\* A Python dict: a function on its keys.  The display inserts the keys in
\* index order, so the keys of a response map are str(0), str(1), ... and
\* this is the order .items() yields them in.
EmptyDictMap == <<>>
items(m) == [i \in 1..Cardinality(DOMAIN m) |-> str(i - 1)]

\* quiz_score: None, or the dict submit_quiz stores.  Scores are fractions.
Zero == [num |-> 0, den |-> 1]
NoneScore ==
    [present |-> FALSE, mcq_correct |-> 0, mcq_total |-> 0,
     mcq_score |-> Zero, text_score |-> Zero, total_score |-> Zero]

\* What a run that is no generation and no submission records.
NoGen ==
    [url_valid |-> FALSE, lookup |-> "na", fallback |-> FALSE,
     transcript |-> "na", reply_err |-> FALSE, text |-> <<>>,
     candidate |-> <<>>, backfill_calls |-> <<>>, parse_raised |-> FALSE,
     had_quiz |-> FALSE, had_score |-> FALSE]
Ran(kind, raised) ==
    [kind |-> kind, raised |-> raised, grade_calls |-> <<>>, gen |-> NoGen]

\* The session state variables as first set (lines 129-147); the page shows
\* the URL input and the Generate button.
Init ==
    /\ quiz = NoneQuiz
    /\ processing = FALSE
    /\ error = "None"
    /\ mcq_responses = EmptyDictMap
    /\ text_responses = EmptyDictMap
    /\ quiz_submitted = FALSE
    /\ quiz_score = NoneScore
    /\ text_feedback = EmptyDictMap
    /\ view = "top"
    /\ run = Ran("init", "")
    /\ job = "none"
    /\ call = NoCall

\* ----------------------------------------------------------- the display
\* The pre-submission branch (lines 420-461).  mr and tr hold the values of
\* the widgets already on the page; a new radio holds its first option, a
\* new text area the empty string.  'mcqs' in quiz raises TypeError for a
\* number and is False for an array; q['question'] raises KeyError at the
\* first text item without the key, before its text area is drawn.  The
\* Submit button is drawn last.
RenderQuiz(q, mr, tr) ==
    IF q.kind = "num"
    THEN [mcq |-> mr, text |-> tr, view |-> "top", raised |-> "TypeError"]
    ELSE LET ms == IF q.kind = "dict" /\ q.has_mcqs THEN q.mcqs ELSE <<>>
             ts == IF q.kind = "dict" /\ q.has_text THEN q.text_questions ELSE <<>>
             broken == {i \in DOMAIN ts : ~ts[i].has_question}
             bad == IF broken = {} THEN 0
                    ELSE CHOOSE x \in broken : \A y \in broken : x <= y
             drawn == {i \in DOMAIN ts : bad = 0 \/ i < bad}
             newm == [k \in {str(i - 1) : i \in DOMAIN ms} |->
                        IF k \in DOMAIN mr THEN mr[k] ELSE ms[int(k) + 1].options[1]]
             newt == [k \in {str(i - 1) : i \in drawn} |->
                        IF k \in DOMAIN tr THEN tr[k] ELSE ""]
         IN  [mcq |-> newm @@ mr, text |-> newt @@ tr,
              view |-> IF bad = 0 THEN "quiz" ELSE "top",
              raised |-> IF bad = 0 THEN "" ELSE "KeyError"]

\* The post-submission branch (lines 463-549): quiz_score["total_score"]
\* raises TypeError when quiz_score is None; feedback['score'] raises when a
\* stored feedback has no integer score.  The Take Another Quiz button is
\* drawn last.
RenderResults(q, score, fb) ==
    IF ~score.present THEN [view |-> "top", raised |-> "TypeError"]
    ELSE IF q.kind = "dict" /\ q.has_text
            /\ \E k \in DOMAIN fb : int(k) + 1 \in DOMAIN q.text_questions
                                    /\ fb[k].score_kind = "missing"
    THEN [view |-> "top", raised |-> "KeyError"]
    ELSE IF q.kind = "dict" /\ q.has_text
            /\ \E k \in DOMAIN fb : int(k) + 1 \in DOMAIN q.text_questions
                                    /\ fb[k].score_kind = "str"
    THEN [view |-> "top", raised |-> "TypeError"]
    ELSE [view |-> "results", raised |-> ""]

\* -------------------------------------------------------------- grading
\* A stored feedback: the dict evaluate_text_answer returned or the literal
\* of line 389.  score_kind says what feedback['score'] is: an integer, a
\* value of another type ("str"), or no such key ("missing").
Feedback(kind, score, text) ==
    [score_kind |-> kind, score |-> score, feedback |-> text]
NoAnswer == Feedback("int", 0, "No answer provided")

\* The objects the grading model may return between braces: the score it was
\* asked for (0..10), a score on another scale (85 of 100), a score that is
\* a string, and an object without the key.
GradeScores == {6, 8, 85}
GradeObjects ==
    {Feedback("int", v, "model feedback") : v \in GradeScores} \cup
    {Feedback("str", 0, "model feedback"), Feedback("missing", 0, "model feedback")}

\* What invoke_model gives evaluate_text_answer: it raises (err), or it
\* returns a text; fb is what the members "f" of the text hold.
GradeReplies ==
    {[err |-> TRUE, text |-> <<>>, fb |-> NoAnswer],
     [err |-> FALSE, text |-> <<"w">>, fb |-> NoAnswer],
     [err |-> FALSE, text |-> <<"{", "w", "}">>, fb |-> NoAnswer]} \cup
    {[err |-> FALSE, text |-> <<"w", "{", "f", "}", "w">>, fb |-> o] : o \in GradeObjects}

\* evaluate_text_answer (lines 203-226): the parsed object as it is, or a
\* fallback when the call or json.loads raises or no braces are found.
evaluate_text_answer(reply) ==
    IF reply.err THEN Feedback("int", 0, "Error: call failed")
    ELSE LET m == BraceMatch(reply.text)
             p == json_loads(m.group)
         IN  IF ~m.found THEN Feedback("int", 0, "Error evaluating answer")
             ELSE IF ~p.ok THEN Feedback("int", 0, "Error: invalid JSON")
             ELSE IF p.members = "f" THEN reply.fb
             ELSE Feedback("missing", 0, "")

\* answer.strip() is empty.
Blank(answer) == answer \in {"", " "}

\* The loop of submit_quiz over text_responses.items() (lines 370-393), from
\* the i-th key on.  st holds text_feedback, text_scores, the grading calls
\* issued and the exception raised; gr[k] is the model's reply for key k.
\* feedback['score'] raises KeyError after the feedback is stored.
\* A loop that stores no feedback for a blank answer.
RECURSIVE TextLoopSkipsBlank(_, _, _, _, _)
TextLoopSkipsBlank(keys, i, tr, gr, st) ==
    IF i > Len(keys) \/ st.raised # "" THEN st
    ELSE LET k == keys[i]
             feedback == evaluate_text_answer(gr[k])
         IN  IF ~Blank(tr[k])
             THEN TextLoopSkipsBlank(keys, i + 1, tr, gr,
                    [fb |-> (k :> feedback) @@ st.fb,
                     scores |-> IF feedback.score_kind = "missing" THEN st.scores
                                ELSE Append(st.scores, feedback),
                     calls |-> Append(st.calls, k),
                     raised |-> IF feedback.score_kind = "missing"
                                THEN "KeyError" ELSE ""])
             ELSE TextLoopSkipsBlank(keys, i + 1, tr, gr, st)

RECURSIVE TextLoop(_, _, _, _, _)
TextLoop(keys, i, tr, gr, st) ==
    IF i > Len(keys) \/ st.raised # "" THEN st
    ELSE LET k == keys[i]
             feedback == evaluate_text_answer(gr[k])
         IN  IF ~Blank(tr[k])
             THEN TextLoop(keys, i + 1, tr, gr,
                    [fb |-> (k :> feedback) @@ st.fb,
                     scores |-> IF feedback.score_kind = "missing" THEN st.scores
                                ELSE Append(st.scores, feedback),
                     calls |-> Append(st.calls, k),
                     raised |-> IF feedback.score_kind = "missing"
                                THEN "KeyError" ELSE ""])
             ELSE TextLoop(keys, i + 1, tr, gr,
                    [st EXCEPT !.fb = (k :> NoAnswer) @@ st.fb])

RECURSIVE SumScores(_)
SumScores(scores) ==
    IF scores = <<>> THEN 0
    ELSE scores[1].score + SumScores(Tail(scores))

\* mcq_score and text_score (lines 358 and 402).
McqScoreOfHundred(mcq_correct, mcq_total) ==
    IF mcq_total > 0 THEN [num |-> mcq_correct * 100, den |-> mcq_total]
    ELSE [num |-> 0, den |-> 1]

TextScoreOverAnswered(scores, text_total) ==
    IF text_total > 0 /\ scores # <<>>
    THEN [num |-> SumScores(scores) * 50, den |-> Len(scores) * 10]
    ELSE [num |-> 0, den |-> 1]

McqScore(mcq_correct, mcq_total) ==
    IF mcq_total > 0 THEN [num |-> mcq_correct * 50, den |-> mcq_total] ELSE Zero
TextScore(scores, text_total) ==
    IF text_total > 0 /\ scores # <<>>
    THEN [num |-> SumScores(scores) * 50, den |-> text_total * 10]
    ELSE Zero
\* total_score = mcq_score + text_score
AddScores(a, b) == [num |-> a.num * b.den + b.num * a.den, den |-> a.den * b.den]

\* submit_quiz (lines 344-414) on quiz q with responses mr and tr and the
\* text_feedback fb0 of the session: the new text_feedback and quiz_score,
\* the grading calls, and the exception that ended it ("" when it returned).
\* quiz['mcqs'] and quiz['text_questions'] raise on an array (TypeError) and
\* on a missing key (KeyError); sum(text_scores) raises TypeError on a score
\* that is no number.
submit_quiz(q, mr, tr, fb0, gr) ==
    LET mcq_total == Len(q.mcqs)
        mcq_correct ==
            Cardinality({k \in DOMAIN mr : mr[k] = q.mcqs[int(k) + 1].answer})
        mcq_score == McqScore(mcq_correct, mcq_total)
        text_total == Len(q.text_questions)
        loop == TextLoop(items(tr), 1, tr, gr,
                    [fb |-> fb0, scores |-> <<>>, calls |-> <<>>, raised |-> ""])
        text_score == TextScore(loop.scores, text_total)
        stopped(fb, calls, raised) ==
            [text_feedback |-> fb, quiz_score |-> NoneScore,
             grade_calls |-> calls, raised |-> raised]
    IN  IF q.kind = "list" THEN stopped(fb0, <<>>, "TypeError")
        ELSE IF ~q.has_mcqs THEN stopped(fb0, <<>>, "KeyError")
        ELSE IF ~q.has_text THEN stopped(fb0, <<>>, "KeyError")
        ELSE IF loop.raised # "" THEN stopped(loop.fb, loop.calls, loop.raised)
        ELSE IF \E j \in DOMAIN loop.scores : loop.scores[j].score_kind = "str"
        THEN stopped(loop.fb, loop.calls, "TypeError")
        ELSE [text_feedback |-> loop.fb,
              quiz_score |->
                 [present |-> TRUE, mcq_correct |-> mcq_correct,
                  mcq_total |-> mcq_total, mcq_score |-> mcq_score,
                  text_score |-> text_score,
                  total_score |-> AddScores(mcq_score, text_score)],
              grade_calls |-> loop.calls, raised |-> ""]

\* ------------------------------------------------------- runs of the script
\* The display part of the script body (lines 416-551) on the session q,
\* sub, score, fb with the widget values mr and tr.  processing is False
\* whenever these lines run (line 333).
BodyWithoutSubmittedCheck(q, sub, score, fb, mr, tr) ==
    IF ~Truthy(q) THEN [mcq |-> mr, text |-> tr, view |-> "top", raised |-> ""]
    ELSE RenderQuiz(q, mr, tr)

Body(q, sub, score, fb, mr, tr) ==
    IF ~Truthy(q) THEN [mcq |-> mr, text |-> tr, view |-> "top", raised |-> ""]
    ELSE IF ~sub THEN RenderQuiz(q, mr, tr)
    ELSE [mcq |-> mr, text |-> tr,
          view |-> RenderResults(q, score, fb).view,
          raised |-> RenderResults(q, score, fb).raised]

\* A handler that leaves the score and the feedback of the earlier quiz.
EndGenerateKeepsScore(q, err, gen) ==
    LET shown == Body(q, FALSE, NoneScore, EmptyDictMap, EmptyDictMap, EmptyDictMap)
    IN  /\ quiz' = q
        /\ processing' = FALSE
        /\ error' = err
        /\ mcq_responses' = shown.mcq
        /\ text_responses' = shown.text
        /\ quiz_submitted' = FALSE
        /\ view' = shown.view
        /\ run' = [kind |-> "generate", raised |-> shown.raised,
                   grade_calls |-> <<>>, gen |-> gen]
        /\ UNCHANGED <<quiz_score, text_feedback>>
        /\ UNCHANGED transcription

\* A handler that leaves the responses recorded for the earlier quiz.
EndGenerateKeepsResponses(q, err, gen) ==
    LET shown == Body(q, FALSE, NoneScore, EmptyDictMap, mcq_responses, text_responses)
    IN  /\ quiz' = q
        /\ processing' = FALSE
        /\ error' = err
        /\ mcq_responses' = shown.mcq
        /\ text_responses' = shown.text
        /\ quiz_submitted' = FALSE
        /\ quiz_score' = NoneScore
        /\ text_feedback' = EmptyDictMap
        /\ view' = shown.view
        /\ run' = [kind |-> "generate", raised |-> shown.raised,
                   grade_calls |-> <<>>, gen |-> gen]
        /\ UNCHANGED transcription

\* The end of the generate handler and the rest of that run: the session was
\* cleared at lines 231-238, q and err are what the handler stored, and a
\* quiz that is shown records the first values of its widgets.
EndGenerate(q, err, gen) ==
    LET shown == Body(q, FALSE, NoneScore, EmptyDictMap, EmptyDictMap, EmptyDictMap)
    IN  /\ quiz' = q
        /\ processing' = FALSE
        /\ error' = err
        /\ mcq_responses' = shown.mcq
        /\ text_responses' = shown.text
        /\ quiz_submitted' = FALSE
        /\ quiz_score' = NoneScore
        /\ text_feedback' = EmptyDictMap
        /\ view' = shown.view
        /\ run' = [kind |-> "generate", raised |-> shown.raised,
                   grade_calls |-> <<>>, gen |-> gen]
        /\ UNCHANGED transcription

\* Lines 286-315: generate_quiz(transcript) and the handler's own parse of a
\* returned text; None and a parsed value are stored as they are.
QuizStep(gen, reply, bf) ==
    LET ret == generate_quiz(reply, bf)
        p == json_loads(ExtractCandidate(ret.text))
        g == [gen EXCEPT !.reply_err = reply.err, !.text = reply.text,
                         !.candidate = IF reply.err THEN <<>>
                                       ELSE ExtractCandidate(reply.text),
                         !.backfill_calls = ret.calls]
    IN  IF ret.type = "str"
        THEN IF p.ok
             THEN EndGenerate(JsonValue(p, reply.quiz), "None", g)
             ELSE EndGenerate(NoneQuiz, "Error parsing quiz output: e",
                              [g EXCEPT !.parse_raised = TRUE])
        ELSE EndGenerate(ret.val, "None", g)

\* The items of the reply's quiz a reference-answer call can be issued for.
BackfillKeys(reply) == DOMAIN reply.quiz.text_questions

\* The Generate Quiz button with a URL entered (lines 229-333).  The audio
\* path (lines 268-284) runs only when get_transcript raises; any failure in
\* it is caught at line 329.
Generate ==
    /\ view # "blank"
    /\ \/ EndGenerate(NoneQuiz, "Invalid YouTube URL. Please check and try again.",
                      [NoGen EXCEPT !.had_quiz = (quiz.kind # "none"),
                                    !.had_score = quiz_score.present])
       \/ \E lookup \in {"ok", "fail"}, reply \in GenReplies :
          \E bf \in [BackfillKeys(reply) -> {"ok", "error"}] :
            LET gt == get_transcript(lookup)
                gen == [NoGen EXCEPT !.url_valid = TRUE, !.lookup = lookup,
                                     !.had_quiz = (quiz.kind # "none"),
                                     !.had_score = quiz_score.present]
            IN  IF gt.raised
                THEN \E audio \in {"ok", "raised"} :
                       IF audio = "ok"
                       THEN QuizStep([gen EXCEPT !.fallback = TRUE,
                                                 !.transcript = "str"], reply, bf)
                       ELSE EndGenerate(NoneQuiz, "An error occurred: e",
                                        [gen EXCEPT !.fallback = TRUE])
                ELSE QuizStep([gen EXCEPT !.transcript = gt.value], reply, bf)

\* A run of the script with no button pressed and the widget values mr, tr.
Redraw(mr, tr) ==
    LET shown == Body(quiz, quiz_submitted, quiz_score, text_feedback, mr, tr)
    IN  /\ mcq_responses' = shown.mcq
        /\ text_responses' = shown.text
        /\ view' = shown.view
        /\ run' = Ran("rerun", shown.raised)
        /\ UNCHANGED <<quiz, processing, error, quiz_submitted, quiz_score,
                       text_feedback>>
        /\ UNCHANGED transcription

\* Rerun from the menu, an edit of the URL, or Generate with no URL.
Rerun == Redraw(mcq_responses, text_responses)

\* A radio that could still be used on the page of a submitted quiz.
SelectOptionWhenSubmitted ==
    /\ view # "blank" /\ Truthy(quiz)
    /\ \E k \in DOMAIN mcq_responses :
       \E o \in Range(quiz.mcqs[int(k) + 1].options) :
          Redraw([mcq_responses EXCEPT ![k] = o], text_responses)

\* The user picks an option of a radio on the page (lines 429-437).
SelectOption ==
    /\ view # "blank" /\ Truthy(quiz) /\ ~quiz_submitted
    /\ \E k \in DOMAIN mcq_responses :
       \E o \in Range(quiz.mcqs[int(k) + 1].options) :
          Redraw([mcq_responses EXCEPT ![k] = o], text_responses)

\* The user edits a text area on the page (lines 449-456).
TextInputs == {"", " ", "an answer"}
EnterText ==
    /\ view # "blank" /\ Truthy(quiz) /\ ~quiz_submitted
    /\ \E k \in DOMAIN text_responses :
       \E a \in TextInputs :
          Redraw(mcq_responses, [text_responses EXCEPT ![k] = a])

\* The Submit Quiz button (line 461): the callback submit_quiz, then the
\* script body, which is skipped when the callback raised.
Submit ==
    /\ view = "quiz"
    /\ \E gr \in [{k \in DOMAIN text_responses : ~Blank(text_responses[k])}
                    -> GradeReplies] :
         LET r == submit_quiz(quiz, mcq_responses, text_responses, text_feedback, gr)
             shown == Body(quiz, TRUE, r.quiz_score, r.text_feedback,
                           mcq_responses, text_responses)
         IN  /\ quiz_submitted' = TRUE
             /\ text_feedback' = r.text_feedback
             /\ quiz_score' = r.quiz_score
             /\ view' = IF r.raised # "" THEN "blank" ELSE shown.view
             /\ run' = [kind |-> "submit",
                        raised |-> IF r.raised # "" THEN r.raised ELSE shown.raised,
                        grade_calls |-> r.grade_calls, gen |-> NoGen]
             /\ UNCHANGED <<quiz, processing, error, mcq_responses, text_responses>>
             /\ UNCHANGED transcription

TakeAnotherKeepsFeedback ==
    /\ view = "results"
    /\ quiz' = NoneQuiz
    /\ mcq_responses' = EmptyDictMap
    /\ text_responses' = EmptyDictMap
    /\ quiz_submitted' = FALSE
    /\ quiz_score' = NoneScore
    /\ view' = "top"
    /\ run' = Ran("reset", "")
    /\ UNCHANGED <<processing, error, text_feedback>>
    /\ UNCHANGED transcription

\* The Take Another Quiz button (lines 542-549): the session is cleared and
\* st.rerun() runs the script again, with no quiz to show.
TakeAnother ==
    /\ view = "results"
    /\ quiz' = NoneQuiz
    /\ mcq_responses' = EmptyDictMap
    /\ text_responses' = EmptyDictMap
    /\ quiz_submitted' = FALSE
    /\ quiz_score' = NoneScore
    /\ text_feedback' = EmptyDictMap
    /\ view' = "top"
    /\ run' = Ran("reset", "")
    /\ UNCHANGED <<processing, error>>
    /\ UNCHANGED transcription

Next == Generate \/ Rerun \/ SelectOption \/ EnterText \/ Submit \/ TakeAnother

Spec == Init /\ [][Next]_vars

\* The session with the quiz the prompt asks for installed: the state a
\* generation that returned it leaves, and the runs that answer, submit and
\* reset it.
InitPrompt ==
    LET shown == Body(PromptQuiz, FALSE, NoneScore, EmptyDictMap, EmptyDictMap,
                      EmptyDictMap)
    IN  /\ quiz = PromptQuiz
        /\ processing = FALSE
        /\ error = "None"
        /\ mcq_responses = shown.mcq
        /\ text_responses = shown.text
        /\ quiz_submitted = FALSE
        /\ quiz_score = NoneScore
        /\ text_feedback = EmptyDictMap
        /\ view = shown.view
        /\ run = [kind |-> "generate", raised |-> "", grade_calls |-> <<>>,
                  gen |-> [NoGen EXCEPT !.url_valid = TRUE, !.lookup = "ok",
                                        !.transcript = "str", !.text = PlainText]]
        /\ job = "none"
        /\ call = NoCall

NextPrompt == Rerun \/ SelectOption \/ EnterText \/ Submit \/ TakeAnother

SpecPrompt == InitPrompt /\ [][NextPrompt]_vars

\* --------------------------------------------------- the extraction alone
\* The texts the extraction is applied to: every text of at most MaxLen
\* tokens of fences, braces and prose, and the sample texts.
MaxLen == 5
Tokens == {"F", "E", "{", "}", "w"}
ExtractTexts == UNION {[1..n -> Tokens] : n \in 0..MaxLen} \cup GenTexts

\* A session in which the model has returned the text t to generate_quiz.
InitExtract ==
    /\ quiz = NoneQuiz
    /\ processing = TRUE
    /\ error = "None"
    /\ mcq_responses = EmptyDictMap
    /\ text_responses = EmptyDictMap
    /\ quiz_submitted = FALSE
    /\ quiz_score = NoneScore
    /\ text_feedback = EmptyDictMap
    /\ view = "top"
    /\ \E t \in ExtractTexts :
          run = [kind |-> "text", raised |-> "", grade_calls |-> <<>>,
                 gen |-> [NoGen EXCEPT !.url_valid = TRUE, !.lookup = "ok",
                                       !.transcript = "str", !.text = t]]
    /\ job = "none"
    /\ call = NoCall

\* Lines 70-77 of generate_quiz on the model's text.
Extract ==
    /\ run.kind = "text"
    /\ run' = [run EXCEPT !.kind = "extract",
                          !.gen.candidate = ExtractCandidate(run.gen.text)]
    /\ UNCHANGED <<quiz, processing, error, mcq_responses, text_responses,
                   quiz_submitted, quiz_score, text_feedback, view>>
    /\ UNCHANGED transcription

\* Lines 297-304 of the handler on the text generate_quiz returned.
ExtractAgain ==
    /\ run.kind = "extract"
    /\ run' = [run EXCEPT !.kind = "extract again",
                          !.gen.candidate = ExtractCandidate(run.gen.candidate)]
    /\ UNCHANGED <<quiz, processing, error, mcq_responses, text_responses,
                   quiz_submitted, quiz_score, text_feedback, view>>
    /\ UNCHANGED transcription

NextExtract == Extract \/ ExtractAgain

SpecExtract == InitExtract /\ [][NextExtract]_vars

\* ------------------------------------------------ transcribe_audio alone
\* The job statuses of the transcription service; the last two are final.
JobStatuses == {"QUEUED", "IN_PROGRESS", "COMPLETED", "FAILED"}
Terminal == {"COMPLETED", "FAILED"}

\* call.polls counts the calls of get_transcription_job up to MaxPolls
\* ("MaxPolls or more"): the loop itself has no bound.
MaxPolls == 8

\* The handler is about to call transcribe_audio(s3_uri, job_name) (app.py
\* line 279).
InitTranscribe ==
    /\ quiz = NoneQuiz
    /\ processing = TRUE
    /\ error = "None"
    /\ mcq_responses = EmptyDictMap
    /\ text_responses = EmptyDictMap
    /\ quiz_submitted = FALSE
    /\ quiz_score = NoneScore
    /\ text_feedback = EmptyDictMap
    /\ view = "top"
    /\ run = Ran("transcribe", "")
    /\ job = "none"
    /\ call = [NoCall EXCEPT !.pc = "start"]

\* start_transcription_job (lines 83-88): the job is queued, or the request
\* raises.
StartJob ==
    /\ call.pc = "start"
    /\ \/ job' = "QUEUED" /\ call' = [call EXCEPT !.pc = "poll"]
       \/ job' = job /\ call' = [call EXCEPT !.pc = "raised", !.exc = "ClientError"]
    /\ UNCHANGED session

\* The service works on the job.
JobProgress ==
    /\ \/ job = "QUEUED" /\ job' \in {"IN_PROGRESS", "FAILED"}
       \/ job = "IN_PROGRESS" /\ job' \in Terminal
    /\ UNCHANGED <<call, session>>

\* A pass of the loop that leaves it after the first status read.
PollOnce ==
    /\ call.pc = "poll"
    /\ call' = [call EXCEPT !.state = job, !.pc = "after",
                            !.polls = IF @ < MaxPolls THEN @ + 1 ELSE @]
    /\ UNCHANGED <<job, session>>

\* One pass of the loop (lines 90-94): get_transcription_job returns the
\* status of the job, or raises; the loop is left on a final status.
Poll ==
    /\ call.pc = "poll"
    /\ \/ call' = [call EXCEPT !.state = job,
                                !.pc = IF job \in Terminal THEN "after" ELSE "poll",
                                !.polls = IF @ < MaxPolls THEN @ + 1 ELSE @]
       \/ call' = [call EXCEPT !.pc = "raised", !.exc = "ClientError"]
    /\ UNCHANGED <<job, session>>

\* Lines 96-99: the transcript URI of a completed job, RuntimeError otherwise.
Finish ==
    /\ call.pc = "after"
    /\ call' = IF call.state = "COMPLETED"
               THEN [call EXCEPT !.pc = "returned", !.result = "TranscriptFileUri"]
               ELSE [call EXCEPT !.pc = "raised", !.exc = "RuntimeError"]
    /\ UNCHANGED <<job, session>>

NextTranscribe == StartJob \/ JobProgress \/ Poll \/ Finish

\* transcribe_audio runs in the script's thread and blocks it: its next
\* statement is always executed.  Nothing is assumed of the service.
SpecTranscribe ==
    InitTranscribe /\ [][NextTranscribe]_vars /\ WF_vars(StartJob \/ Poll \/ Finish)

\* ------------------------------------------------------------- fractions
\* a <= b and a = b for fractions with positive denominators.
Leq(a, b) == a.num * b.den <= b.num * a.den
Same(a, b) == a.num * b.den = b.num * a.den
Whole(n) == [num |-> n, den |-> 1]

\* The quiz is an object with both keys, as the scoring reads it.
BothKeys == quiz.kind = "dict" /\ quiz.has_mcqs /\ quiz.has_text

\* ------------------------------------------------------------------ C1
\* C1: whenever a score summary is stored, mcq_score and text_score are in
\* [0,50], total_score is in [0,100], and total_score = mcq_score +
\* text_score.  The code stores whatever score the grading model returned:
\* a score of 85 for the only text question gives text_score = 425.
C1_ScoreInRange ==
    quiz_score.present =>
        /\ Leq(Zero, quiz_score.mcq_score) /\ Leq(quiz_score.mcq_score, Whole(50))
        /\ Leq(Zero, quiz_score.text_score) /\ Leq(quiz_score.text_score, Whole(50))
        /\ Leq(Zero, quiz_score.total_score) /\ Leq(quiz_score.total_score, Whole(100))
        /\ Same(quiz_score.total_score,
                AddScores(quiz_score.mcq_score, quiz_score.text_score))

\* ------------------------------------------------------------------ C2
\* C2: while the session stays submitted, no run changes quiz_score or
\* text_feedback or issues a grading call, and the page of a submitted
\* session has no Submit button.
C2_SubmitOnce ==
    [][/\ quiz_submitted => view # "quiz"
       /\ (quiz_submitted /\ quiz_submitted') =>
             /\ quiz_score' = quiz_score
             /\ text_feedback' = text_feedback
             /\ run'.grade_calls = <<>>]_vars

\* A submitted and scored session whose page was drawn again after the
\* submission.
C2_Witness ==
    /\ quiz_submitted /\ quiz_score.present /\ run.kind = "rerun"
    /\ \E k \in DOMAIN text_feedback : text_feedback[k].feedback = "model feedback"

\* ------------------------------------------------------------------ C3
\* C3: after a submission of a quiz with both keys, whatever the grading
\* model returned, every recorded text response has a feedback with an
\* integer score and the score summary is stored.  The code raises KeyError
\* at feedback['score'] when the returned object has no "score" key: the
\* responses after it are not graded and no summary is stored.
C3_GradingIsolated ==
    (run.kind = "submit" /\ BothKeys) =>
        /\ DOMAIN text_feedback = DOMAIN text_responses
        /\ \A k \in DOMAIN text_feedback : text_feedback[k].score_kind = "int"
        /\ quiz_score.present

\* ------------------------------------------------------------------ C4
\* A step of the last generation attempt failed: the URL held no video id,
\* the transcript lookup failed and the audio path gave no transcript
\* either, the model call raised, or the handler's parse raised.
GenFailed(g) ==
    \/ ~g.url_valid
    \/ g.lookup = "fail" /\ g.transcript # "str"
    \/ g.reply_err
    \/ g.parse_raised

\* C4: a generation attempt of which a step failed ends with no quiz
\* installed, not submitted, no responses, no feedback and no score.  The
\* code goes on to generate_quiz(None) when the transcript lookup failed, and
\* installs the quiz the model returns for it.
C4_FailedAttemptNoQuiz ==
    (run.kind = "generate" /\ GenFailed(run.gen)) =>
        /\ quiz = NoneQuiz
        /\ ~quiz_submitted
        /\ mcq_responses = EmptyDictMap /\ text_responses = EmptyDictMap
        /\ text_feedback = EmptyDictMap
        /\ ~quiz_score.present

\* ------------------------------------------------------------------ C5
\* The grading calls the last submission issued for key k.
CallsFor(k) == Cardinality({i \in DOMAIN run.grade_calls : run.grade_calls[i] = k})

\* C5: after a submission, every blank text response has exactly the
\* feedback {score: 0, feedback: "No answer provided"} and no grading call,
\* and every other response has exactly one grading call.  When the pass is
\* cut short (C3), the responses after the cut get neither.
C5_BlankNotGraded ==
    run.kind = "submit" =>
        \A k \in DOMAIN text_responses :
            IF Blank(text_responses[k])
            THEN /\ k \in DOMAIN text_feedback
                 /\ text_feedback[k] = NoAnswer
                 /\ CallsFor(k) = 0
            ELSE CallsFor(k) = 1

\* ------------------------------------------------------------------ C6
\* The MCQ items whose recorded response equals their answer.
CorrectItems ==
    {i \in DOMAIN quiz.mcqs :
        /\ str(i - 1) \in DOMAIN mcq_responses
        /\ mcq_responses[str(i - 1)] = quiz.mcqs[i].answer}

\* C6: in a stored score summary mcq_total is the number of MCQ items of the
\* quiz, mcq_correct the number of items whose recorded response equals the
\* item's answer, and mcq_score = (mcq_correct / mcq_total) * 50 (0 when
\* there is no MCQ item).
C6_McqScoring ==
    quiz_score.present =>
        /\ quiz_score.mcq_total = Len(quiz.mcqs)
        /\ quiz_score.mcq_correct = Cardinality(CorrectItems)
        /\ IF Len(quiz.mcqs) > 0
           THEN Same(quiz_score.mcq_score,
                     [num |-> 50 * Cardinality(CorrectItems), den |-> Len(quiz.mcqs)])
           ELSE Same(quiz_score.mcq_score, Zero)

\* 5 MCQs, 3 answered correctly and 2 incorrectly: 3 of 5, mcq_score 30.
C6_Witness ==
    /\ quiz_score.present
    /\ Len(quiz.mcqs) = 5 /\ DOMAIN mcq_responses = {"0", "1", "2", "3", "4"}
    /\ Cardinality(CorrectItems) = 3
    /\ quiz_score.mcq_correct = 3 /\ quiz_score.mcq_total = 5
    /\ Same(quiz_score.mcq_score, Whole(30))

\* ------------------------------------------------------------------ C7
\* The sum of the scores of the stored feedbacks with keys in ks.
RECURSIVE SumFeedback(_)
SumFeedback(ks) ==
    IF ks = {} THEN 0
    ELSE LET k == CHOOSE x \in ks : TRUE
         IN  text_feedback[k].score + SumFeedback(ks \ {k})

\* C7: in a stored score summary text_score = (sum of the recorded text
\* scores / (text_total * 10)) * 50, text_total being the number of text
\* items of the quiz and a blank answer counting 0; it is 0 when there is no
\* text item or no score was recorded; total_score = mcq_score + text_score.
C7_TextScoring ==
    quiz_score.present =>
        /\ IF /\ Len(quiz.text_questions) > 0
              /\ \E k \in DOMAIN text_responses : ~Blank(text_responses[k])
           THEN Same(quiz_score.text_score,
                     [num |-> 50 * SumFeedback(DOMAIN text_feedback),
                      den |-> 10 * Len(quiz.text_questions)])
           ELSE Same(quiz_score.text_score, Zero)
        /\ Same(quiz_score.total_score,
                AddScores(quiz_score.mcq_score, quiz_score.text_score))

\* 3 text questions graded 8, 6 and blank and 3 of 5 MCQs correct:
\* text_score = (14/30)*50 = 70/3, total_score = 30 + 70/3 = 160/3.
C7_Witness ==
    /\ quiz_score.present
    /\ Len(quiz.text_questions) = 3 /\ DOMAIN text_feedback = {"0", "1", "2"}
    /\ text_feedback["0"].score = 8 /\ text_feedback["1"].score = 6
    /\ text_responses["2"] = "" /\ text_feedback["2"] = NoAnswer
    /\ quiz_score.mcq_correct = 3
    /\ Same(quiz_score.text_score, [num |-> 70, den |-> 3])
    /\ Same(quiz_score.total_score, [num |-> 160, den |-> 3])

\* ------------------------------------------------------------------ C8
\* C8: a submission of a quiz with no MCQ item or with no text item
\* completes and stores the score summary, with the score of the empty half
\* equal to 0.  Lines 358 and 402 guard both divisions, but a quiz without
\* MCQ items still has its submission cut short by the KeyError of C3.
C8_EmptyHalf ==
    (/\ run.kind = "submit" /\ BothKeys
     /\ (Len(quiz.mcqs) = 0 \/ Len(quiz.text_questions) = 0)) =>
        /\ quiz_score.present
        /\ Len(quiz.mcqs) = 0 => Same(quiz_score.mcq_score, Zero)
        /\ Len(quiz.text_questions) = 0 => Same(quiz_score.text_score, Zero)

\* ------------------------------------------------------------------ C9
\* C9: every feedback stored in text_feedback has an integer score in
\* [0,10].  The code stores the object the grading model returned as it is.
C9_FeedbackScore ==
    \A k \in DOMAIN text_feedback :
        /\ text_feedback[k].score_kind = "int"
        /\ text_feedback[k].score \in 0..10

\* ------------------------------------------------------------------ C10
\* C10: the run of Take Another Quiz leaves the pre-quiz session: no quiz,
\* no responses, no feedback, not submitted, no score.
C10_ResetClears ==
    run.kind = "reset" =>
        /\ quiz = NoneQuiz
        /\ mcq_responses = EmptyDictMap /\ text_responses = EmptyDictMap
        /\ text_feedback = EmptyDictMap
        /\ ~quiz_submitted
        /\ ~quiz_score.present

\* Take Another Quiz was pressed on the results of a submitted quiz that had
\* responses, feedback and a score.
C10_Witness ==
    /\ run.kind = "reset" /\ view = "top" /\ quiz = NoneQuiz /\ error = "None"

\* ------------------------------------------------------------------ C11
\* C11: when a generation installs a quiz object with text questions, the
\* reference-answer calls it issued are in question order, one for every
\* text question that came without an answer and none for the others; a
\* call that failed left the literal "No reference answer available."; and
\* every text question of the installed quiz has an answer.  When a text
\* question has neither "question" nor "answer", question['question'] raises
\* KeyError in the loop: generate_quiz returns the text, the handler parses
\* it again and installs the quiz as the model wrote it, without the
\* answers, those already generated included.
C11_Backfill ==
    (run.kind = "generate" /\ quiz.kind = "dict" /\ quiz.has_text) =>
        LET c == run.gen.backfill_calls
            ts == quiz.text_questions
        IN  /\ \A i, j \in DOMAIN c : i < j => c[i].item < c[j].item
            /\ \A i \in DOMAIN ts : ts[i].has_answer
            /\ \A i \in DOMAIN ts :
                   (\E j \in DOMAIN c : c[j].item = i) <=> ts[i].answer # "ref"
            /\ \A j \in DOMAIN c :
                   /\ c[j].item \in DOMAIN ts
                   /\ ts[c[j].item].answer = generate_reference_answer(c[j].outcome)

\* ------------------------------------------------------------------ C12
\* C12: the answer of every MCQ item of the installed quiz is one of the
\* item's own options.  Neither generate_quiz nor the handler looks at the
\* items: a quiz whose answer is no option is installed as it is.
C12_AnswerInOptions ==
    \A i \in DOMAIN quiz.mcqs :
        quiz.mcqs[i].answer \in Range(quiz.mcqs[i].options)

\* ------------------------------------------------------------------ C13
\* C13: a generation attempt that ends with no quiz installed leaves an
\* error message in the session.  When the model call fails generate_quiz
\* returns None, which the handler stores as the quiz without an error.
C13_ErrorSet ==
    (run.kind = "generate" /\ quiz = NoneQuiz) => error # "None"

\* ------------------------------------------------------------------ C14
\* C14: the submission of a quiz object without the key mcqs or without the
\* key text_questions completes and stores the score summary, with the
\* total and the score of the missing half equal to 0.  The display tests
\* for both keys, but submit_quiz reads quiz['mcqs'] and
\* quiz['text_questions'] and raises KeyError.
C14_MissingKeys ==
    (/\ run.kind = "submit" /\ quiz.kind = "dict"
     /\ (~quiz.has_mcqs \/ ~quiz.has_text)) =>
        /\ run.raised = ""
        /\ quiz_score.present
        /\ ~quiz.has_mcqs =>
              quiz_score.mcq_total = 0 /\ Same(quiz_score.mcq_score, Zero)
        /\ ~quiz.has_text => Same(quiz_score.text_score, Zero)

\* ------------------------------------------------------------------ C15
\* C15: a model text with no brace in it is never installed as the quiz:
\* the attempt ends with no quiz.  json.loads accepts a text that is a
\* number or an array, and the handler installs that value.
C15_NoBraceFails ==
    (/\ run.kind = "generate" /\ run.gen.url_valid /\ ~run.gen.reply_err
     /\ "{" \notin Range(run.gen.text) /\ "}" \notin Range(run.gen.text)) =>
        quiz = NoneQuiz

\* ------------------------------------------------------------------ C16
\* The first json fence of t opens at i and closes at j; s[p..q] runs from
\* the first "{" of s through its last "}".
IsFirstFence(t, i, j) ==
    /\ i < j /\ t[i] = "F" /\ t[j] \in {"E", "F"}
    /\ \A k \in 1..(i - 1) : t[k] # "F"
    /\ \A k \in (i + 1)..(j - 1) : t[k] \notin {"E", "F"}
IsSpan(s, p, q) ==
    /\ p < q /\ s[p] = "{" /\ s[q] = "}"
    /\ \A k \in 1..(p - 1) : s[k] # "{"
    /\ \A k \in (q + 1)..Len(s) : s[k] # "}"
\* c is the first "{" through the last "}" of s, or s when it has no such.
Scanned(s, c) ==
    IF \E p, q \in DOMAIN s : IsSpan(s, p, q)
    THEN \E p, q \in DOMAIN s : IsSpan(s, p, q) /\ c = SubSeq(s, p, q)
    ELSE c = s
FenceFirst(t, c) ==
    IF \E i, j \in DOMAIN t : IsFirstFence(t, i, j)
    THEN \E i, j \in DOMAIN t :
            IsFirstFence(t, i, j) /\ Scanned(SubSeq(t, i + 1, j - 1), c)
    ELSE Scanned(t, c)

\* C16: the candidate extracted from a model text with a json fence is the
\* first "{" through the last "}" of the interior of the first fence,
\* whatever stands outside the fence; from a text with no fence it is the
\* first "{" through the last "}" of the whole text.  The handler's second
\* extraction leaves the candidate as it is.
C16_FenceFirst ==
    run.kind \in {"extract", "extract again"} =>
        FenceFirst(run.gen.text, run.gen.candidate)

\* Prefix noise, a json fence holding an object, suffix noise: the object.
C16_Witness ==
    /\ run.kind = "extract again"
    /\ run.gen.text = <<"w", "F", "{", "q", "}", "E", "w">>
    /\ run.gen.candidate = <<"{", "q", "}">>
    /\ json_loads(run.gen.candidate).ok

\* ------------------------------------------------------------------ C17
\* C17: in a generation attempt for a valid video id, a failed transcript
\* lookup is followed by the audio path, and generate_quiz is never called
\* with a missing transcript.  get_transcript catches the failure of the
\* lookup and returns None, so the handler's except branch never runs: the
\* audio path is skipped and generate_quiz(None) is called.
C17_TranscriptFallback ==
    (run.kind = "generate" /\ run.gen.url_valid) =>
        /\ run.gen.lookup = "fail" => run.gen.fallback
        /\ run.gen.transcript # "None"

\* ------------------------------------------------------------------ C18
\* C18: while the session stays submitted no run changes mcq_responses,
\* text_responses, text_feedback or quiz_score; the submission itself leaves
\* the responses as they were; and a submitted session ends only by Take
\* Another Quiz or a new generation, which leave no feedback and no score.
C18_ResponsesFrozen ==
    [][/\ (quiz_submitted /\ quiz_submitted') =>
             /\ mcq_responses' = mcq_responses
             /\ text_responses' = text_responses
             /\ text_feedback' = text_feedback
             /\ quiz_score' = quiz_score
       /\ (~quiz_submitted /\ quiz_submitted') =>
             /\ mcq_responses' = mcq_responses
             /\ text_responses' = text_responses
       /\ (quiz_submitted /\ ~quiz_submitted') =>
             /\ run'.kind \in {"reset", "generate"}
             /\ text_feedback' = EmptyDictMap
             /\ ~quiz_score'.present]_vars

\* The page of a submitted and scored quiz with recorded responses of both
\* kinds was drawn again.
C18_Witness ==
    /\ quiz_submitted /\ run.kind = "rerun" /\ view = "results"
    /\ \E k \in DOMAIN mcq_responses : mcq_responses[k] = "B"
    /\ \E k \in DOMAIN text_responses : text_responses[k] = "an answer"

\* ------------------------------------------------------------------ C20
\* C20: a submitted session has a quiz and a score summary.  submit_quiz
\* sets quiz_submitted first (line 346); when it raises afterwards (C3,
\* C14) no summary is stored, and the results view raises TypeError at
\* quiz_score["total_score"].
C20_SubmittedHasScore ==
    quiz_submitted => (quiz # NoneQuiz /\ quiz_score.present)

\* ------------------------------------------------------------------ C19
\* The call is past its loop only with a final status read; it has returned
\* only the URI of a COMPLETED job; RuntimeError is raised only for a FAILED
\* job.
PollingSafe ==
    /\ call.pc \in {"after", "returned"} =>
          (call.state \in Terminal /\ call.state = job)
    /\ call.pc = "returned" =>
          (job = "COMPLETED" /\ call.result = "TranscriptFileUri")
    /\ (call.pc = "raised" /\ call.exc = "RuntimeError") =>
          (job = "FAILED" /\ call.state = "FAILED")

\* C19: transcribe_audio leaves its loop only after it has read a final
\* status; it returns only when the job is COMPLETED, with the transcript
\* URI, and raises RuntimeError when the job is FAILED; and once the job has
\* reached a final status the call ends.
C19_Polling ==
    /\ []PollingSafe
    /\ ((job \in Terminal) ~> (call.pc \in {"returned", "raised"}))

\* The call returned the URI after it had read a status that was not final
\* at least twice.
C19_Witness ==
    /\ call.pc = "returned" /\ call.polls >= 3
    /\ job = "COMPLETED" /\ call.result = "TranscriptFileUri"

\* ------------------------------------------------------------------ C21
\* C21: a session that is not submitted has no score summary and no
\* feedback: both are stored only by submit_quiz, after it has set
\* quiz_submitted, and the generate handler and Take Another Quiz clear them
\* together with quiz_submitted.
C21_UnsubmittedHasNoScore ==
    ~quiz_submitted => (~quiz_score.present /\ text_feedback = EmptyDictMap)

\* A quiz was generated over a submitted and scored one and is on the page,
\* not submitted, with no score and no feedback.
C21_Witness ==
    /\ run.kind = "generate" /\ run.gen.had_quiz /\ run.gen.had_score
    /\ view = "quiz" /\ ~quiz_submitted
    /\ Len(quiz.text_questions) > 0

\* ------------------------------------------------------------------ C22
\* The string indices of the items of the list l: "0", "1", ...
Indices(l) == {str(i - 1) : i \in DOMAIN l}

\* C22: every key of mcq_responses is the string index of an MCQ item of
\* the installed quiz and every key of text_responses the string index of
\* one of its text items, and both maps are empty when no quiz is installed:
\* the maps are cleared where the quiz is replaced or removed, and only the
\* display of the installed quiz records into them.
C22_ResponseKeys ==
    /\ DOMAIN mcq_responses \subseteq Indices(quiz.mcqs)
    /\ DOMAIN text_responses \subseteq Indices(quiz.text_questions)
    /\ quiz = NoneQuiz =>
          (mcq_responses = EmptyDictMap /\ text_responses = EmptyDictMap)

\* A quiz with no MCQ item was generated over an earlier quiz and is on the
\* page with a response recorded for its text question only.
C22_Witness ==
    /\ run.kind = "generate" /\ run.gen.had_quiz
    /\ view = "quiz" /\ Len(quiz.mcqs) = 0
    /\ mcq_responses = EmptyDictMap /\ DOMAIN text_responses = {"0"}

\* ------------------------------------------------------------------ C23
\* C23: once submit_quiz has run to its end (the score summary is stored by
\* its last statement), text_feedback has exactly the keys of
\* text_responses: one entry for every recorded response, blank or not, the
\* entry of a blank one being the "No answer provided" literal, and no
\* entry for an index without a response.
C23_FeedbackKeys ==
    quiz_score.present =>
        /\ DOMAIN text_feedback = DOMAIN text_responses
        /\ \A k \in DOMAIN text_responses :
              Blank(text_responses[k]) => text_feedback[k] = NoAnswer

C23_Witness ==
    /\ run.kind = "submit" /\ run.raised = "" /\ quiz_score.present
    /\ Cardinality(DOMAIN text_responses) = PromptTexts
    /\ \E k \in DOMAIN text_responses : Blank(text_responses[k])
    /\ \E k \in DOMAIN text_responses : ~Blank(text_responses[k])

====
